---- MODULE Spec2Model ----
(***************************************************************************)
(* The incremental ledger indexer and the daily winner job of              *)
(* src/src/app.service.ts: constructor, bootstrap, the self-rescheduling   *)
(* eventsTrackingLoop with processTradeEvents and the checkpoint row      *)
(* (IndexerState), and handleCron with getDailyWinnerTokenId.  Every      *)
(* awaited call is one step: between two steps of one flow the other flow *)
(* may run, and each call can fail on its own.  Code that runs without an *)
(* await in between (a loop head, the walk over an empty list, the sort)  *)
(* belongs to the step of the await before it.                            *)
(***************************************************************************)
EXTENDS Integers, Sequences, FiniteSets

\* ---------------------------------------------------------------- constants
\* private readonly blocksIndexingRange = 1000
blocksIndexingRange == 1000

\* PUMP_FUN_INITIAL_BLOCK_NUMBER, the configured bootstrap height
InitialBlockNumber == 100

\* values of PUMP_FUN_INITIAL_BLOCK_NUMBER: unset, "0", "100"
InitialBlockNumberValues == {"absent", "0", "100"}

\* +configService.get('PUMP_FUN_INITIAL_BLOCK_NUMBER')
ToNumber(v) == IF v = "100" THEN InitialBlockNumber ELSE 0

\* the environments the service may be started in
Configs ==
  [ rpcUrl : BOOLEAN, contractAddress : BOOLEAN,
    initialBlockNumber : InitialBlockNumberValues ]

\* handleCron: const totalAttempts = 3
totalAttemptsFour == 3 + 1

totalAttempts == 3

\* return null
NoWinner == 0

\* ticks in a day
DayLen == 4

\* most Trade rows in the store the daily job reads
MaxTrades == 3

\* ids of the Token rows the daily job may load
AggTokenIds == {1, 2, 3}

\* amountOut values of the Trade rows
Amounts == {1, 2}

\* the clock when the job runs: midnight of day 2, or a tick later
Nows == {2 * DayLen, 2 * DayLen + 1}

\* createdAt values of the rows stored before the job runs: the last tick of
\* day 0, the first and the last tick of day 1
Times == {DayLen - 1, DayLen, 2 * DayLen - 1}

\* number of ledger/store calls of the indexing flow that may fail in one run
MaxFaults == 1

\* the values web3.eth.getBlockNumber() may report
Tips == {100, 101, 102, 104, 1100, 1101, 1102}

\* "no IndexerState row" (findOne returned null)
NoRow == -1

\* findOne(Token) returned null
NoToken == 0

\* const bootstrapUsers: one address in lower case, one in mixed case
bootstrapUsers == << "u1", "U2" >>

\* The contract's event log; from is the sender of the event's transaction.
\* Token tZ was created at or below the bootstrap height, so the store never
\* learns about it.
ChainEvents ==
  << [txnHash |-> 1, event |-> "TokenCreated", blockNumber |-> 101,  token |-> "tA", from |-> "U1"],
     [txnHash |-> 2, event |-> "TokenBuy",     blockNumber |-> 101,  token |-> "tA", from |-> "u1"],
     [txnHash |-> 3, event |-> "TokenSell",    blockNumber |-> 102,  token |-> "tA", from |-> "u9"],
     [txnHash |-> 4, event |-> "TokenSell",    blockNumber |-> 103,  token |-> "tA", from |-> "u1"],
     [txnHash |-> 5, event |-> "TokenBuy",     blockNumber |-> 104,  token |-> "tA", from |-> "u9"],
     [txnHash |-> 6, event |-> "TokenCreated", blockNumber |-> 1101, token |-> "tB", from |-> "u9"],
     [txnHash |-> 7, event |-> "TokenBuy",     blockNumber |-> 1101, token |-> "tA", from |-> "u1"],
     [txnHash |-> 8, event |-> "TokenBuy",     blockNumber |-> 1102, token |-> "tZ", from |-> "u1"] >>

VARIABLES
  proc,                   \* "running" | "exited"  (process.exit / crash)
  pc,                     \* position of the indexing flow: the pending await
  step,                   \* inside a persistence loop: the pending call
  indexerState,           \* IndexerState.blockNumber, or NoRow
  rows,                   \* Token and Trade rows, in insertion order
  users,                  \* addresses of the UserAccount rows
  uniqueAddress,          \* whether Token.address carries a unique index
  lastIndexedBlockNumber, \* locals of eventsTrackingLoop
  fromBlockParam,
  fromBlock,
  toBlock,
  blockchainBlockNumber,
  tokenCreatedEvents,
  buyEvents,
  sellEvents,
  i,                      \* index of the running for-loop
  user,                   \* const user of the TokenCreated loop
  token,                  \* const token of processTradeEvents
  queries,                \* getPastEvents calls of this iteration
  batchStart,             \* Len(rows) when this iteration started
  branch,                 \* how this iteration left the try block
  err,                    \* the call that threw into the catch block
  faults,                 \* failed calls so far
  config,                 \* what ConfigService.get finds
  inFlight,               \* calls of eventsTrackingLoop not yet settled
  advanced,               \* ranges of the iterations that ran to success
  tipT,                   \* the chain tip when it is held fixed, else 0
  tokens,                 \* ids of the Token rows, newest timestamp first
  trades,                 \* the Trade rows the daily job reads, oldest first
  now,                    \* the clock
  cronPc,                 \* handleCron: "idle", or its pending await
  cronI,                  \* handleCron's loop counter i
  loaded,                 \* const tokens of getDailyWinnerTokenId
  cronK,                  \* index of its for-loop over the tokens
  tokensMap,              \* the entries of tokensMap, in insertion order
  winnerTokenId,          \* what the successful attempt of this run returned
  logged                  \* this run logged a winner line

vars == << proc, pc, step, indexerState, rows, users, uniqueAddress,
           lastIndexedBlockNumber, fromBlockParam, fromBlock, toBlock,
           blockchainBlockNumber, tokenCreatedEvents, buyEvents, sellEvents,
           i, user, token, queries, batchStart, branch, err, faults, config,
           inFlight, advanced, tipT, tokens, trades, now, cronPc, cronI,
           loaded, cronK, tokensMap, winnerTokenId, logged >>

\* the tables the daily job reads
cronStore == << tokens, trades, now >>

\* the locals of the daily job
cronLocals == << cronPc, cronI, loaded, cronK, tokensMap, winnerTokenId,
                 logged >>

\* the state of the daily job
cronVars == << cronStore, cronLocals >>

\* the state of the indexing flow
indexerVars == << proc, pc, step, indexerState, rows, users, uniqueAddress,
                  lastIndexedBlockNumber, fromBlockParam, fromBlock, toBlock,
                  blockchainBlockNumber, tokenCreatedEvents, buyEvents,
                  sellEvents, i, user, token, queries, batchStart, branch,
                  err, faults, config, inFlight, advanced, tipT >>

\* what no step of the indexing flow changes
others == << config, tipT, uniqueAddress, cronVars >>

locals == << lastIndexedBlockNumber, fromBlockParam, fromBlock, toBlock,
             blockchainBlockNumber >>
lists  == << tokenCreatedEvents, buyEvents, sellEvents >>

\* ---------------------------------------------------------------- helpers
CanFail == faults < MaxFaults

\* getLatestIndexedBlockNumber: the row's blockNumber, 0 without a row
getLatestIndexedBlockNumber ==
  IF indexerState # NoRow THEN indexerState ELSE 0

\* toBlock = fromBlock + range - 1, clamped to the chain tip
RangeUpperNoClampMinusOne(from, tip) ==
  IF from + blocksIndexingRange > tip THEN tip ELSE from + blocksIndexingRange

RangeUpperNoClamp(from, tip) == from + blocksIndexingRange - 1

RangeUpper(from, tip) ==
  IF from + blocksIndexingRange - 1 > tip THEN tip
  ELSE from + blocksIndexingRange - 1

\* const fromBlockParam = lastIndexedBlockNumber + 1
NextFromBlockOverlap(last) == last

NextFromBlock(last) == last + 1

\* line 236: the one call of the next iteration
CallsAtEndTwice == 1 + 1

CallsAtEnd == 1

\* if(toBlock - fromBlock >= 1)
HasRangeInclusive(from, to) == to - from >= 0

HasRange(from, to) == to - from >= 1

\* else branch: toBlock = fromBlockParam - 1
StallToBlockTwoBack(fromParam) == fromParam - 2

StallToBlock(fromParam) == fromParam - 1

\* catch branch: toBlock = fromBlockParam - 1
CatchToBlockNoReset(fromParam) == fromParam

CatchToBlock(fromParam) == fromParam - 1

\* getPastEvents('allEvents', {fromBlock, toBlock, topics: [sha3(sig)]})
getPastEventsOpenUpper(name, from, to) ==
  SelectSeq(ChainEvents, LAMBDA e : e.event = name /\ e.blockNumber >= from
                                     /\ e.blockNumber < to)

getPastEvents(name, from, to) ==
  SelectSeq(ChainEvents, LAMBDA e : e.event = name /\ e.blockNumber >= from
                                     /\ e.blockNumber <= to)

\* positions of the Token rows
TokenIds == { p \in 1..Len(rows) : rows[p].table = "Token" }

\* getTokenByAddress: findOne(Token, {where: {address}}); the candidates
getTokenByAddressNoWhere(address) == TokenIds

getTokenByAddress(address) ==
  { p \in TokenIds : rows[p].address = address }

\* the unique index on Token.address, when the schema has one, rejects the
\* insert of a second Token row with the same address
UniqueViolation(address) ==
  uniqueAddress /\ \E p \in TokenIds : rows[p].address = address

\* String.prototype.toLowerCase on the addresses of the model
toLowerCase(s) ==
  IF s = "U1" THEN "u1" ELSE IF s = "U2" THEN "u2" ELSE s

\* userService.getUserByAddress: addresses compare without regard to case
getUserByAddress(address) == toLowerCase(address) \in users

\* userService.addNewUser: the address is stored in lower case
addNewUser(address) == users \cup { toLowerCase(address) }

\* findOne(UserAccount, {where: {address: userAddress.toLowerCase()}})
findUser(address) ==
  IF toLowerCase(address) \in users THEN toLowerCase(address) ELSE "null"

TokenRow(e, creator) ==
  [ table |-> "Token", txnHash |-> e.txnHash, type |-> "created",
    blockNumber |-> e.blockNumber, address |-> e.token, token |-> NoToken,
    user |-> creator ]

TradeRow(e, tradeType, tokenId) ==
  [ table |-> "Trade", txnHash |-> e.txnHash, type |-> tradeType,
    blockNumber |-> e.blockNumber, address |-> "", token |-> tokenId,
    user |-> "null" ]

\* the order of the three persistence loops
PhaseOrderSellFirst == << "created", "sell", "buy" >>

PhaseOrder == << "created", "buy", "sell" >>

PhaseAfter(ph) ==
  IF ph = PhaseOrder[1] THEN PhaseOrder[2]
  ELSE IF ph = PhaseOrder[2] THEN PhaseOrder[3]
  ELSE "done"

\* the list a persistence loop walks
EventsOf(ph, created, buy, sell) ==
  IF ph = "created" THEN created ELSE IF ph = "buy" THEN buy ELSE sell

\* the first awaited call of one pass of a persistence loop
FirstStep(ph) ==
  IF ph = "created" THEN "getTransaction" ELSE "getTokenByAddress"

\* The next await after pass idx - 1 of loop ph: the first call of pass idx,
\* or of the first pass of a later loop, or, past the last loop (line 217),
\* the checkpoint write of line 230.
RECURSIVE NextPosition(_, _, _, _, _)
NextPosition(ph, idx, created, buy, sell) ==
  IF ph = "done"
  THEN [ pc |-> "update", i |-> 1, step |-> "none" ]
  ELSE IF idx <= Len(EventsOf(ph, created, buy, sell))
  THEN [ pc |-> ph, i |-> idx, step |-> FirstStep(ph) ]
  ELSE NextPosition(PhaseAfter(ph), 1, created, buy, sell)

\* lines 231-233: the catch block around the checkpoint write ends the process
UpdateFailureContinues == "running"

UpdateFailureProc == "exited"

\* after the 5s wait of the stall branch the flow falls through to line 229
AfterStallSkipsWrite == "read"

AfterStall == "update"

\* ---------------------------------------------------------------- daily winner
\* moment().startOf('day') and .endOf('day'), in ticks
StartOfDay(t) == t - (t % DayLen)

EndOfDay(t) == StartOfDay(t) + DayLen - 1

\* moment().subtract(1, 'days').startOf('day')
dateStart(t) == StartOfDay(t - DayLen)

\* moment().subtract(1, 'day').endOf('day')
dateEnd(t) == EndOfDay(t - DayLen)

\* find(Trade, {token: {id}, createdAt: Between(dateStart, dateEnd)})
tokenSwaps(id, table, t) ==
  SelectSeq(table, LAMBDA tr : /\ tr.token = id
                               /\ tr.createdAt >= dateStart(t)
                               /\ tr.createdAt <= dateEnd(t))

RECURSIVE SumAmountOut(_)
\* tokenSwaps.reduce((acc, item) => acc += BigInt(item.amountOut), 0n)
SumAmountOut(swaps) ==
  IF swaps = << >> THEN 0
  ELSE swaps[1].amountOut + SumAmountOut(Tail(swaps))

\* the comparator of the sort, lines 353-355
compareFnAscending(a, b) == IF a[2] - b[2] > 0 THEN 1 ELSE -1

compareFn(a, b) == IF a[2] - b[2] > 0 THEN -1 ELSE 1

\* Array.prototype.sort as the engine runs it on a short array: the run at
\* the head is found (and reversed if descending), then every further
\* element is placed by binary insertion
RECURSIVE RunLength(_, _, _)
RunLength(arr, descending, idx) ==
  IF idx > Len(arr) THEN idx - 1
  ELSE LET order == compareFn(arr[idx], arr[idx - 1])
       IN  IF (descending /\ order >= 0) \/ (~descending /\ order < 0)
           THEN idx - 1
           ELSE RunLength(arr, descending, idx + 1)

ReverseRange(arr, n) ==
  [ k \in 1..Len(arr) |-> IF k <= n THEN arr[n + 1 - k] ELSE arr[k] ]

RECURSIVE BinarySearch(_, _, _, _)
\* left and right count from 0, as in the engine
BinarySearch(arr, pivot, left, right) ==
  IF left >= right THEN left
  ELSE LET mid == left + ((right - left) \div 2)
       IN  IF compareFn(pivot, arr[mid + 1]) < 0
           THEN BinarySearch(arr, pivot, left, mid)
           ELSE BinarySearch(arr, pivot, mid + 1, right)

RECURSIVE BinaryInsertionSort(_, _)
\* start counts from 0: arr[1..start] is sorted, arr[start + 1] is placed next
BinaryInsertionSort(arr, start) ==
  IF start >= Len(arr) THEN arr
  ELSE LET pivot == arr[start + 1]
           left  == BinarySearch(arr, pivot, 0, start)
           moved == [ k \in 1..Len(arr) |->
                        IF k <= left THEN arr[k]
                        ELSE IF k = left + 1 THEN pivot
                        ELSE IF k <= start + 1 THEN arr[k - 1]
                        ELSE arr[k] ]
       IN  BinaryInsertionSort(moved, start + 1)

sortedMapArray(arr) ==
  IF Len(arr) < 2 THEN arr
  ELSE LET descending == compareFn(arr[2], arr[1]) < 0
           run == RunLength(arr, descending, 3)
           head == IF descending THEN ReverseRange(arr, run) ELSE arr
       IN  BinaryInsertionSort(head, run)

\* lines 352-360: sort the entries, return the first key or null
getDailyWinnerTokenId(entries) ==
  LET sorted == sortedMapArray(entries)
  IN  IF Len(sorted) > 0 THEN sorted[1][1] ELSE NoWinner

\* ---------------------------------------------------------------- Init
InitLoop ==
  /\ proc = "running"
  /\ pc = "constructor"
  /\ step = "none"
  /\ indexerState = NoRow
  /\ rows = << >>
  /\ users = {}
  /\ lastIndexedBlockNumber = 0
  /\ fromBlockParam = 0
  /\ fromBlock = 0
  /\ toBlock = 0
  /\ blockchainBlockNumber = 0
  /\ tokenCreatedEvents = << >>
  /\ buyEvents = << >>
  /\ sellEvents = << >>
  /\ i = 1
  /\ user = "null"
  /\ token = NoToken
  /\ queries = << >>
  /\ batchStart = 0
  /\ branch = "none"
  /\ err = "none"
  /\ faults = 0
  /\ inFlight = 0
  /\ advanced = << >>

\* the daily job is not running
InitCron ==
  /\ cronPc = "idle"
  /\ cronI = 0
  /\ loaded = << >>
  /\ cronK = 1
  /\ tokensMap = << >>
  /\ winnerTokenId = NoWinner
  /\ logged = FALSE

\* the daily job has nothing to read
EmptyCronStore ==
  /\ tokens = << >>
  /\ trades = << >>
  /\ now = 0

Init ==
  /\ InitLoop
  /\ uniqueAddress \in BOOLEAN
  /\ config \in Configs
  /\ tipT = 0
  /\ InitCron
  /\ EmptyCronStore

\* ---------------------------------------------------------------- actions
\* catch (e) of eventsTrackingLoop, lines 223-227
Catch(call) ==
  /\ toBlock' = CatchToBlock(fromBlockParam)
  /\ branch' = "failed"
  /\ err' = call
  /\ pc' = "sleep30"
  /\ step' = "none"

\* a call of the indexing flow rejects
Rejects == CanFail /\ faults' = faults + 1

\* constructor, lines 29-57: exit without contract address or initial block
\* number, else bootstrap() is called and runs up to its first await
Constructor ==
  /\ proc = "running" /\ pc = "constructor"
  /\ IF config.contractAddress /\ config.initialBlockNumber # "absent"
     THEN /\ pc' = "bootstrap"
          /\ UNCHANGED proc
     ELSE /\ proc' = "exited"
          /\ UNCHANGED pc
  /\ UNCHANGED << step, indexerState, rows, users, locals, lists, i, user,
                  token, queries, batchStart, branch, err, faults, inFlight,
                  advanced, others >>

\* what a step of bootstrap() leaves alone
BootstrapFrame ==
  UNCHANGED << step, rows, locals, lists, user, token, queries, batchStart,
               branch, err, advanced, others >>

\* lines 85-88: any rejection inside bootstrap() ends the process
BootstrapFails ==
  /\ Rejects
  /\ proc' = "exited"
  /\ UNCHANGED << pc, i, indexerState, users, inFlight >>

\* the loop over bootstrapUsers goes on with user idx; past the last one
\* bootstrap() returns and line 54 calls the first iteration
BootstrapUser(idx) ==
  IF idx <= Len(bootstrapUsers)
  THEN /\ pc' = "bootGetUser"
       /\ i' = idx
       /\ UNCHANGED inFlight
  ELSE /\ pc' = "read"
       /\ i' = 1
       /\ inFlight' = inFlight + 1

\* lines 61-64: await findOne(IndexerState); without a row the configured
\* height is inserted, and a height of 0 ends the process (lines 65-69)
BootstrapFindState ==
  /\ proc = "running" /\ pc = "bootstrap"
  /\ BootstrapFrame
  /\ \/ /\ IF indexerState # NoRow
           THEN /\ BootstrapUser(1)
                /\ UNCHANGED proc
           ELSE IF ToNumber(config.initialBlockNumber) = 0
           THEN /\ proc' = "exited"
                /\ UNCHANGED << pc, i, inFlight >>
           ELSE /\ pc' = "bootInsert"
                /\ UNCHANGED << proc, i, inFlight >>
        /\ UNCHANGED << indexerState, users, faults >>
     \/ BootstrapFails

\* lines 70-72: await insert(IndexerState, {blockNumber})
BootstrapInsertState ==
  /\ proc = "running" /\ pc = "bootInsert"
  /\ BootstrapFrame
  /\ \/ /\ indexerState' = ToNumber(config.initialBlockNumber)
        /\ BootstrapUser(1)
        /\ UNCHANGED << proc, users, faults >>
     \/ BootstrapFails

\* line 79: await userService.getUserByAddress(address)
BootstrapGetUser ==
  /\ proc = "running" /\ pc = "bootGetUser"
  /\ BootstrapFrame
  /\ \/ /\ IF getUserByAddress(bootstrapUsers[i])
           THEN BootstrapUser(i + 1)
           ELSE /\ pc' = "bootAddUser"
                /\ UNCHANGED << i, inFlight >>
        /\ UNCHANGED << proc, indexerState, users, faults >>
     \/ BootstrapFails

\* line 80: await userService.addNewUser({address})
BootstrapAddUser ==
  /\ proc = "running" /\ pc = "bootAddUser"
  /\ BootstrapFrame
  /\ \/ /\ users' = addNewUser(bootstrapUsers[i])
        /\ BootstrapUser(i + 1)
        /\ UNCHANGED << proc, indexerState, faults >>
     \/ BootstrapFails

\* bootstrap(), lines 59-89
Bootstrap ==
  \/ BootstrapFindState
  \/ BootstrapInsertState
  \/ BootstrapGetUser
  \/ BootstrapAddUser

\* lines 147-151: read the checkpoint, outside the try block.  A rejection
\* here is never handled: the loop is gone, and the runtime either crashes
\* the process or only warns.
ReadCheckpoint ==
  /\ proc = "running" /\ pc = "read"
  /\ \/ /\ lastIndexedBlockNumber' = getLatestIndexedBlockNumber
        /\ fromBlockParam' = NextFromBlock(lastIndexedBlockNumber')
        /\ fromBlock' = fromBlockParam'
        /\ toBlock' = fromBlock'
        /\ pc' = "tip"
        /\ batchStart' = Len(rows)
        \* the new call's frame: nothing fetched or queried yet
        /\ blockchainBlockNumber' = 0
        /\ tokenCreatedEvents' = << >>
        /\ buyEvents' = << >>
        /\ sellEvents' = << >>
        /\ i' = 1
        /\ user' = "null"
        /\ token' = NoToken
        /\ queries' = << >>
        /\ branch' = "none"
        /\ err' = "none"
        /\ UNCHANGED << proc, faults, inFlight >>
     \/ /\ Rejects
        /\ pc' = "rejected"
        /\ proc' \in {"running", "exited"}
        /\ inFlight' = inFlight - 1
        /\ UNCHANGED << locals, lists, i, user, token, queries, batchStart,
                        branch, err >>
  /\ UNCHANGED << step, indexerState, rows, users, advanced, others >>

\* what getBlockNumber may answer: any tip, or the one the run holds fixed
TipsNow == IF tipT = 0 THEN Tips ELSE {tipT}

\* lines 153-159 and 218-222: query the tip, clamp, take the range or stall
GetBlockNumber ==
  /\ proc = "running" /\ pc = "tip"
  /\ UNCHANGED << inFlight, advanced, others >>
  /\ \/ \E t \in TipsNow :
          /\ config.rpcUrl
          /\ blockchainBlockNumber' = t
          /\ IF HasRange(fromBlock, RangeUpper(fromBlock, t))
             THEN /\ toBlock' = RangeUpper(fromBlock, t)
                  /\ pc' = "fetchCreated"
                  /\ UNCHANGED << branch, err >>
             ELSE /\ toBlock' = StallToBlock(fromBlockParam)
                  /\ pc' = "sleep5"
                  /\ branch' = "stall"
                  /\ UNCHANGED err
          /\ UNCHANGED << step, faults >>
     \/ /\ Rejects
        /\ Catch("getBlockNumber")
        /\ UNCHANGED blockchainBlockNumber
     \/ \* new Web3(undefined): no provider, every request rejects
        /\ ~config.rpcUrl
        /\ Catch("getBlockNumber")
        /\ UNCHANGED << blockchainBlockNumber, faults >>
  /\ UNCHANGED << proc, indexerState, rows, users, lastIndexedBlockNumber,
                  fromBlockParam, fromBlock, lists, i, user, token, queries,
                  batchStart >>

Query(name) == [ event |-> name, fromBlock |-> fromBlock, toBlock |-> toBlock ]

\* lines 160-166
FetchTokenCreated ==
  /\ proc = "running" /\ pc = "fetchCreated"
  /\ UNCHANGED << inFlight, advanced, others >>
  /\ queries' = Append(queries, Query("TokenCreated"))
  /\ \/ /\ tokenCreatedEvents' = getPastEvents("TokenCreated", fromBlock, toBlock)
        /\ pc' = "fetchBuy"
        /\ UNCHANGED << step, toBlock, branch, err, faults >>
     \/ /\ Rejects
        /\ Catch("getPastEvents")
        /\ UNCHANGED tokenCreatedEvents
  /\ UNCHANGED << proc, indexerState, rows, users, lastIndexedBlockNumber,
                  fromBlockParam, fromBlock, blockchainBlockNumber, buyEvents,
                  sellEvents, i, user, token, batchStart >>

\* lines 168-174
FetchBuy ==
  /\ proc = "running" /\ pc = "fetchBuy"
  /\ UNCHANGED << inFlight, advanced, others >>
  /\ queries' = Append(queries, Query("TokenBuy"))
  /\ \/ /\ buyEvents' = getPastEvents("TokenBuy", fromBlock, toBlock)
        /\ pc' = "fetchSell"
        /\ UNCHANGED << step, toBlock, branch, err, faults >>
     \/ /\ Rejects
        /\ Catch("getPastEvents")
        /\ UNCHANGED buyEvents
  /\ UNCHANGED << proc, indexerState, rows, users, lastIndexedBlockNumber,
                  fromBlockParam, fromBlock, blockchainBlockNumber,
                  tokenCreatedEvents, sellEvents, i, user, token, batchStart >>

\* the flow moves to the await at pos; reaching line 217 marks the success
GoTo(pos) ==
  /\ pc' = pos.pc
  /\ i' = pos.i
  /\ step' = pos.step
  /\ branch' = IF pos.pc = "update" THEN "success" ELSE branch

\* lines 176-182; the loops that follow run up to their first await
FetchSell ==
  /\ proc = "running" /\ pc = "fetchSell"
  /\ UNCHANGED << inFlight, advanced, others >>
  /\ queries' = Append(queries, Query("TokenSell"))
  /\ \/ /\ sellEvents' = getPastEvents("TokenSell", fromBlock, toBlock)
        /\ GoTo(NextPosition(PhaseOrder[1], 1, tokenCreatedEvents, buyEvents,
                             sellEvents'))
        /\ UNCHANGED << toBlock, err, faults >>
     \/ /\ Rejects
        /\ Catch("getPastEvents")
        /\ UNCHANGED << sellEvents, i >>
  /\ UNCHANGED << proc, indexerState, rows, users, lastIndexedBlockNumber,
                  fromBlockParam, fromBlock, blockchainBlockNumber,
                  tokenCreatedEvents, buyEvents, user, token, batchStart >>

\* what a step of a persistence loop leaves alone
LoopFrame ==
  UNCHANGED << indexerState, users, lastIndexedBlockNumber, fromBlockParam,
               fromBlock, blockchainBlockNumber, lists, queries, batchStart,
               inFlight, advanced, others >>

\* a call inside a persistence loop rejects: the catch block of line 223
LoopCallFails(call) ==
  /\ Rejects
  /\ Catch(call)
  /\ UNCHANGED << proc, rows, i, user, token >>

\* a call inside a persistence loop resolves and the next call is awaited
LoopCallThen(nextStep) ==
  /\ step' = nextStep
  /\ UNCHANGED << proc, pc, rows, i, toBlock, branch, err, faults >>

\* line 190: await web3.eth.getTransaction(txnHash)
GetTransaction ==
  /\ proc = "running" /\ pc = "created" /\ step = "getTransaction"
  /\ LoopFrame
  /\ \/ LoopCallThen("findOne") /\ UNCHANGED << user, token >>
     \/ LoopCallFails("getTransaction")

\* lines 192-196: await findOne(UserAccount) for the sender of the transaction
FindOneUserAccount ==
  /\ proc = "running" /\ pc = "created" /\ step = "findOne"
  /\ LoopFrame
  /\ \/ /\ user' = findUser(tokenCreatedEvents[i].from)
        /\ LoopCallThen("name")
        /\ UNCHANGED token
     \/ LoopCallFails("findUser")

\* line 199: await tokenContract.methods.name().call()
TokenName ==
  /\ proc = "running" /\ pc = "created" /\ step = "name"
  /\ LoopFrame
  /\ \/ LoopCallThen("symbol") /\ UNCHANGED << user, token >>
     \/ LoopCallFails("name")

\* line 200: await tokenContract.methods.symbol().call()
TokenSymbol ==
  /\ proc = "running" /\ pc = "created" /\ step = "symbol"
  /\ LoopFrame
  /\ \/ LoopCallThen("insert") /\ UNCHANGED << user, token >>
     \/ LoopCallFails("symbol")

\* lines 202-211: await insert(Token); then the next pass, loop or line 217
InsertToken ==
  /\ proc = "running" /\ pc = "created" /\ step = "insert"
  /\ LoopFrame
  /\ \/ /\ ~UniqueViolation(tokenCreatedEvents[i].token)
        /\ rows' = Append(rows, TokenRow(tokenCreatedEvents[i], user))
        /\ GoTo(NextPosition("created", i + 1, tokenCreatedEvents, buyEvents,
                             sellEvents))
        /\ UNCHANGED << proc, toBlock, err, faults, user, token >>
     \/ \* the insert violates the unique index on Token.address
        /\ UniqueViolation(tokenCreatedEvents[i].token)
        /\ Catch("insertToken")
        /\ UNCHANGED << proc, rows, i, user, token, faults >>
     \/ LoopCallFails("insertToken")

\* lines 184-212: the TokenCreated loop
ProcessTokenCreated ==
  \/ GetTransaction
  \/ FindOneUserAccount
  \/ TokenName
  \/ TokenSymbol
  \/ InsertToken

\* lines 102-106: await getTokenByAddress; if(!token) process.exit(1)
GetTokenByAddress(events) ==
  /\ step = "getTokenByAddress"
  /\ \/ /\ \E tokenId \in getTokenByAddress(events[i].token) :
             token' = tokenId
        /\ LoopCallThen("insert")
        /\ UNCHANGED user
     \/ /\ getTokenByAddress(events[i].token) = {}
        /\ proc' = "exited"
        /\ UNCHANGED << pc, step, rows, i, user, token, toBlock, branch, err,
                        faults >>
     \/ LoopCallFails("getTokenByAddress")

\* lines 108-123: await insert(Trade); a rejection is thrown on (line 121)
InsertTrade(events, tradeType) ==
  /\ step = "insert"
  /\ \/ /\ rows' = Append(rows, TradeRow(events[i], tradeType, token))
        /\ GoTo(NextPosition(tradeType, i + 1, tokenCreatedEvents, buyEvents,
                             sellEvents))
        /\ UNCHANGED << proc, toBlock, err, faults, user, token >>
     \/ LoopCallFails("insertTrade")

\* lines 91-125: one pass of the loop of processTradeEvents
processTradeEvents(events, tradeType) ==
  \/ GetTokenByAddress(events)
  \/ InsertTrade(events, tradeType)

\* line 214
ProcessBuy ==
  /\ proc = "running" /\ pc = "buy"
  /\ LoopFrame
  /\ processTradeEvents(buyEvents, "buy")

\* line 215
ProcessSell ==
  /\ proc = "running" /\ pc = "sell"
  /\ LoopFrame
  /\ processTradeEvents(sellEvents, "sell")

\* line 221: wait for the blockchain
Sleep5 ==
  /\ proc = "running" /\ pc = "sleep5"
  /\ UNCHANGED << inFlight, advanced, others >>
  /\ pc' = AfterStall
  /\ UNCHANGED << proc, step, indexerState, rows, users, locals, lists, i,
                  user, token, queries, batchStart, branch, err, faults >>

\* line 226: back off after a failure
Sleep30 ==
  /\ proc = "running" /\ pc = "sleep30"
  /\ UNCHANGED << inFlight, advanced, others >>
  /\ pc' = "update"
  /\ UNCHANGED << proc, step, indexerState, rows, users, locals, lists, i,
                  user, token, queries, batchStart, branch, err, faults >>

\* what a step of the checkpoint write leaves alone
UpdateFrame ==
  UNCHANGED << step, rows, users, locals, lists, i, user, token, queries,
               batchStart, branch, others >>

\* lines 231-234: the write threw; line 236 is reached only if the process
\* is still alive
UpdateFailed ==
  /\ err' = "updateLastIndexerBlockNumber"
  /\ proc' = UpdateFailureProc
  /\ pc' = IF UpdateFailureProc = "exited" THEN pc ELSE "read"
  /\ UNCHANGED << indexerState, inFlight, advanced >>

\* lines 138-141: await stateRepository.findOne; a null row makes line 142
\* throw a TypeError
UpdateFindOne ==
  /\ proc = "running" /\ pc = "update"
  /\ UpdateFrame
  /\ \/ /\ IF indexerState = NoRow
           THEN UpdateFailed
           ELSE /\ pc' = "save"
                /\ UNCHANGED << proc, err, indexerState, inFlight, advanced >>
        /\ UNCHANGED faults
     \/ /\ Rejects
        /\ UpdateFailed

\* lines 142-143: await stateRepository.save; line 236 then calls the next
\* iteration
UpdateSave ==
  /\ proc = "running" /\ pc = "save"
  /\ UpdateFrame
  /\ \/ /\ indexerState' = toBlock
        /\ pc' = "read"
        /\ inFlight' = inFlight - 1 + CallsAtEnd
        /\ advanced' = IF branch = "success"
                       THEN Append(advanced, [from |-> fromBlock, to |-> toBlock])
                       ELSE advanced
        /\ UNCHANGED << proc, faults, err >>
     \/ /\ Rejects
        /\ UpdateFailed

\* lines 229-236 with updateLastIndexerBlockNumber (137-144)
UpdateLastIndexerBlockNumber ==
  \/ UpdateFindOne
  \/ UpdateSave

Next ==
  \/ Constructor
  \/ Bootstrap
  \/ ReadCheckpoint
  \/ GetBlockNumber
  \/ FetchTokenCreated
  \/ FetchBuy
  \/ FetchSell
  \/ ProcessTokenCreated
  \/ ProcessBuy
  \/ ProcessSell
  \/ Sleep5
  \/ Sleep30
  \/ UpdateLastIndexerBlockNumber

Spec == Init /\ [][Next]_vars

\* a run with a full configuration, the chain tip held at one height above
\* the bootstrap height, and no call failing
FixedTipInit ==
  /\ InitLoop
  /\ uniqueAddress \in BOOLEAN
  /\ config = [ rpcUrl |-> TRUE, contractAddress |-> TRUE,
                initialBlockNumber |-> "100" ]
  /\ tipT \in { t \in Tips : t > InitialBlockNumber }
  /\ InitCron
  /\ EmptyCronStore

NoCallFails == faults' = faults /\ err' = "none"

FixedTipNext ==
  \/ Constructor /\ NoCallFails
  \/ Bootstrap /\ NoCallFails
  \/ ReadCheckpoint /\ NoCallFails
  \/ GetBlockNumber /\ NoCallFails
  \/ FetchTokenCreated /\ NoCallFails
  \/ FetchBuy /\ NoCallFails
  \/ FetchSell /\ NoCallFails
  \/ ProcessTokenCreated /\ NoCallFails
  \/ ProcessBuy /\ NoCallFails
  \/ ProcessSell /\ NoCallFails
  \/ Sleep5 /\ NoCallFails
  \/ UpdateLastIndexerBlockNumber /\ NoCallFails

\* the event loop runs every continuation that is ready
FixedTipSpec ==
  FixedTipInit /\ [][FixedTipNext]_vars /\ WF_vars(FixedTipNext)

\* ---------------------------------------------------------------- daily job
\* every order in which getTokens may return some of the Token rows
TokenLists ==
  { list \in UNION { [1..n -> AggTokenIds] : n \in 0..Cardinality(AggTokenIds) } :
      \A a, b \in 1..Len(list) : a # b => list[a] # list[b] }

\* the ids in a list of tokens
IdsOf(list) == { list[k] : k \in 1..Len(list) }

\* the Trade rows of the tokens in list that were stored before the job runs
TradeRows(list) ==
  [ token : IdsOf(list), amountOut : Amounts, createdAt : Times ]

\* rows stored in the same tick are listed by token and amount
RowOrder(tr) == (tr.createdAt * 10 + tr.token) * 10 + tr.amountOut

\* Every content of the Trade table of up to n rows: a row is stamped when it
\* is stored, so the table in insertion order is in the order of createdAt.
\* Equal rows may occur more than once.
TradeTables(list, n) ==
  { table \in UNION { [1..m -> TradeRows(list)] : m \in 0..n } :
      \A k \in 1..(Len(table) - 1) :
        RowOrder(table[k]) <= RowOrder(table[k + 1]) }

\* the store as the scheduled run finds it; the indexing flow is held where
\* it is, and its inserts are the steps InsertTokenRow and InsertTradeRow
AggInit ==
  /\ InitLoop
  /\ uniqueAddress = TRUE
  /\ config = [ rpcUrl |-> TRUE, contractAddress |-> TRUE,
                initialBlockNumber |-> "100" ]
  /\ tipT = 0
  /\ InitCron
  /\ tokens \in TokenLists
  /\ trades \in TradeTables(tokens, MaxTrades)
  /\ now \in Nows

\* a new attempt of handleCron: getDailyWinnerTokenId is called and runs up
\* to its first await, getTokens (line 338)
StartAttempt ==
  /\ cronPc' = "getTokens"
  /\ loaded' = << >>
  /\ cronK' = 1
  /\ tokensMap' = << >>

\* @Cron(EVERY_DAY_AT_MIDNIGHT): handleCron is called
CronFire ==
  /\ cronPc = "idle"
  /\ cronI' = 0
  /\ logged' = FALSE
  /\ winnerTokenId' = NoWinner
  /\ StartAttempt
  /\ UNCHANGED << cronStore, indexerVars >>

\* lines 327-329: the attempt rejects, the error is logged, i++
AttemptFails ==
  /\ cronI' = cronI + 1
  /\ IF cronI + 1 < totalAttempts
     THEN StartAttempt
     ELSE /\ cronPc' = "idle"
          /\ UNCHANGED << loaded, cronK, tokensMap >>
  /\ UNCHANGED << winnerTokenId, logged >>

\* lines 352-360 and 324-326: the attempt returns, the winner is logged, break
AttemptSucceeds(entries) ==
  /\ winnerTokenId' = getDailyWinnerTokenId(entries)
  /\ logged' = TRUE
  /\ cronPc' = "idle"
  /\ tokensMap' = entries
  /\ UNCHANGED cronI

\* line 338: await this.getTokens({offset: 0, limit: 1000})
GetTokens ==
  /\ cronPc = "getTokens"
  /\ UNCHANGED << cronStore, indexerVars >>
  /\ \/ /\ loaded' = tokens
        /\ IF tokens = << >>
           THEN AttemptSucceeds(<< >>) /\ UNCHANGED cronK
           ELSE /\ cronPc' = "find"
                /\ cronK' = 1
                /\ tokensMap' = << >>
                /\ UNCHANGED << cronI, winnerTokenId, logged >>
     \/ AttemptFails

\* lines 340-350: await find(Trade) for token k and set its total in the map
FindTrades ==
  /\ cronPc = "find"
  /\ UNCHANGED << cronStore, indexerVars >>
  /\ \/ LET entry == << loaded[cronK],
                        SumAmountOut(tokenSwaps(loaded[cronK], trades, now)) >>
        IN  IF cronK = Len(loaded)
            THEN AttemptSucceeds(Append(tokensMap, entry))
                 /\ UNCHANGED << loaded, cronK >>
            ELSE /\ tokensMap' = Append(tokensMap, entry)
                 /\ cronK' = cronK + 1
                 /\ UNCHANGED << cronPc, cronI, loaded, winnerTokenId, logged >>
     \/ AttemptFails

\* the list with id put behind its first k entries
InsertAt(list, k, id) ==
  SubSeq(list, 1, k) \o << id >> \o SubSeq(list, k + 1, Len(list))

\* line 202, seen from the daily job: the indexing flow stores a Token row.
\* getTokens orders by timestamp DESC (line 263) and the row carries the
\* timestamp of its event (line 208): the new row comes before the rows with
\* an older timestamp and behind those with a newer one, and among equal
\* timestamps the store chooses, so it may land at any place of the list.
InsertTokenRow ==
  /\ \E id \in AggTokenIds \ IdsOf(tokens), k \in 0..Len(tokens) :
       tokens' = InsertAt(tokens, k, id)
  /\ UNCHANGED << trades, now, cronLocals, indexerVars >>

\* Trade.createdAt is the persistence timestamp: the clock at the insert
createdAtOnInsert == now

\* line 109, seen from the daily job: the indexing flow stores a Trade row
InsertTradeRow ==
  /\ Len(trades) < MaxTrades
  /\ \E id \in IdsOf(tokens), amount \in Amounts :
       trades' = Append(trades, [ token |-> id, amountOut |-> amount,
                                  createdAt |-> createdAtOnInsert ])
  /\ UNCHANGED << tokens, now, cronLocals, indexerVars >>

AggNext ==
  \/ CronFire
  \/ GetTokens
  \/ FindTrades
  \/ InsertTokenRow
  \/ InsertTradeRow

AggSpec == AggInit /\ [][AggNext]_vars

\* ---------------------------------------------------------------- properties
Min(a, b) == IF a < b THEN a ELSE b

\* the event a row was made from (txnHash is the position in ChainEvents)
EventOf(r) == ChainEvents[r.txnHash]

\* a Token row with this address is in the store
TokenKnown(address) ==
  \E p \in 1..Len(rows) : rows[p].table = "Token" /\ rows[p].address = address

\* the list the running trade loop walks
CurrentEvents == IF pc = "buy" THEN buyEvents ELSE sellEvents

RangeQueries(from, to) ==
  << [event |-> "TokenCreated", fromBlock |-> from, toBlock |-> to],
     [event |-> "TokenBuy",     fromBlock |-> from, toBlock |-> to],
     [event |-> "TokenSell",    fromBlock |-> from, toBlock |-> to] >>

C1_Step ==
  ( /\ pc = "save" /\ pc' = "read"
    /\ branch # "failed"
    /\ blockchainBlockNumber >= lastIndexedBlockNumber + 2 )
  => /\ indexerState = lastIndexedBlockNumber
     /\ indexerState' = Min(lastIndexedBlockNumber + blocksIndexingRange,
                            blockchainBlockNumber)
     /\ queries = RangeQueries(lastIndexedBlockNumber + 1,
                               Min(lastIndexedBlockNumber + blocksIndexingRange,
                                   blockchainBlockNumber))

\* C1: an iteration that met no failure, started at checkpoint h and saw a
\* tip t >= h+2, has queried exactly [h+1, min(h+RANGE_SIZE, t)] for the
\* three event kinds and its checkpoint write stores min(h+RANGE_SIZE, t),
\* whatever the number of events found.
C1_SuccessfulIterationAdvances == [][C1_Step]_vars

\* a successful iteration over a range without events has advanced
C1_Witness ==
  /\ pc = "read" /\ branch = "success"
  /\ Len(rows) = batchStart
  /\ tokenCreatedEvents = << >> /\ buyEvents = << >> /\ sellEvents = << >>
  /\ indexerState = toBlock
  /\ indexerState > lastIndexedBlockNumber

C2_Step == indexerState # NoRow => indexerState' >= indexerState

\* C2: no write to the checkpoint row stores a value smaller than the one it
\* replaces.
C2_CheckpointMonotone == [][C2_Step]_vars

\* a stalled iteration wrote the checkpoint while the tip was below it,
\* after the checkpoint had advanced
C2_Witness ==
  /\ pc = "read" /\ branch = "stall"
  /\ blockchainBlockNumber \in Tips
  /\ blockchainBlockNumber < indexerState
  /\ indexerState > InitialBlockNumber

\* C3: every event in a block above the bootstrap height and at or below the
\* stored checkpoint has its Token or Trade row in the store.
C3_NoEventMissingBelowCheckpoint ==
  \A k \in 1..Len(ChainEvents) :
    ( /\ indexerState # NoRow
      /\ ChainEvents[k].blockNumber > InitialBlockNumber
      /\ ChainEvents[k].blockNumber <= indexerState )
    => \E p \in 1..Len(rows) :
         /\ rows[p].txnHash = ChainEvents[k].txnHash
         /\ rows[p].table = IF ChainEvents[k].event = "TokenCreated"
                            THEN "Token" ELSE "Trade"

\* the checkpoint was advanced over a batch that held events
C3_Witness ==
  /\ pc = "read" /\ branch = "success"
  /\ Len(rows) > batchStart
  /\ indexerState = 1101
  /\ \E p \in 1..Len(rows) : rows[p].txnHash = 7

C4_Step ==
  /\ ( branch = "failed" /\ pc \in {"sleep30", "update", "save"} )
       => /\ indexerState = lastIndexedBlockNumber
          /\ indexerState' = indexerState
  /\ ( branch = "failed" /\ pc = "read" /\ pc' = "tip" )
       => /\ fromBlock' = fromBlock
          /\ fromBlock' = indexerState + 1
  /\ ( pc \in {"tip", "fetchCreated", "fetchBuy", "fetchSell", "created",
               "buy", "sell"} )
       => indexerState' = indexerState

\* C4: an iteration that fell into the catch block leaves the checkpoint at
\* the value read at its start, and the next iteration starts from the same
\* from-block, checkpoint + 1.
C4_FailedIterationKeepsCheckpoint == [][C4_Step]_vars

\* an iteration failed after rows of its batch were written (they lie above
\* the checkpoint), and the next iteration has started from checkpoint + 1
C4_Witness ==
  /\ pc = "tip"
  /\ batchStart = Len(rows)
  /\ \E p \in 1..Len(rows) :
       rows[p].table = "Trade" /\ rows[p].blockNumber > indexerState
  /\ indexerState = lastIndexedBlockNumber
  /\ fromBlock = indexerState + 1
  /\ toBlock = fromBlock

C5_MeetsUnknownToken ==
  /\ proc = "running"
  /\ pc \in {"buy", "sell"}
  /\ step = "getTokenByAddress"
  /\ i <= Len(CurrentEvents)
  /\ ~TokenKnown(CurrentEvents[i].token)

C5_Step ==
  /\ C5_MeetsUnknownToken
       => /\ rows' = rows
          /\ indexerState' = indexerState
          /\ \/ proc' = "exited" /\ pc' = pc /\ i' = i
             \/ pc' = "sleep30" /\ err' = "getTokenByAddress"
  /\ proc = "exited" => UNCHANGED vars
  /\ \A p \in 1..Len(rows') :
       rows'[p].table = "Trade" =>
         \E q \in 1..(p - 1) :
           rows'[q].table = "Token" /\ rows'[q].address = EventOf(rows'[p]).token

\* C5: a buy or sell event whose token has no Token row gets no Trade row,
\* and meeting it leaves the checkpoint alone and halts the process; a
\* halted process takes no further step.
C5_UnknownTokenIsFatal == [][C5_Step]_vars

\* the process exited on the TokenBuy of the never-created token tZ
C5_Witness ==
  /\ proc = "exited" /\ pc = "buy" /\ step = "getTokenByAddress"
  /\ i <= Len(buyEvents)
  /\ buyEvents[i].token = "tZ"
  /\ ~TokenKnown("tZ")
  /\ indexerState = lastIndexedBlockNumber

\* C6: the store never holds two rows of the same table for one event, also
\* after an iteration failed part-way and its range was scanned again.
C6_ExactlyOneRowPerEvent ==
  \A p, q \in 1..Len(rows) :
    (rows[p].table = rows[q].table /\ rows[p].txnHash = rows[q].txnHash)
      => p = q

\* C7: whenever an iteration has ended, every Token and Trade row belongs
\* to a block at or below the stored checkpoint.
C7_NoRowAboveCheckpoint ==
  (pc = "read" /\ indexerState # NoRow)
    => \A p \in 1..Len(rows) : rows[p].blockNumber <= indexerState

PhaseRank(type) ==
  IF type = "created" THEN 1 ELSE IF type = "buy" THEN 2 ELSE 3

\* C8: every Trade row references a Token row inserted before it, carrying
\* the address of the trade's event; the rows one iteration inserts come in
\* the order Token rows, then buys, then sells.
C8_TokenBeforeTrade ==
  /\ \A p \in 1..Len(rows) :
       rows[p].table = "Trade" =>
         /\ rows[p].token \in 1..(p - 1)
         /\ rows[rows[p].token].table = "Token"
         /\ rows[rows[p].token].address = EventOf(rows[p]).token
  /\ batchStart <= Len(rows)
  /\ \A p, q \in (batchStart + 1)..Len(rows) :
       p < q => PhaseRank(rows[p].type) <= PhaseRank(rows[q].type)

\* the TokenCreated and the TokenBuy of token tA, found in one batch, gave
\* the Token row and then the Trade row referencing it
C8_Witness ==
  \E p, q \in (batchStart + 1)..Len(rows) :
    /\ p < q
    /\ rows[p].table = "Token" /\ rows[p].txnHash = 1
    /\ rows[q].table = "Trade" /\ rows[q].txnHash = 2
    /\ rows[q].token = p

C9_Step ==
  /\ ( /\ pc = "tip"
       /\ blockchainBlockNumber' \in Tips
       /\ blockchainBlockNumber' <= lastIndexedBlockNumber + 1 )
       => /\ pc' = "sleep5" /\ branch' = "stall"
          /\ rows' = rows /\ queries' = << >>
          /\ indexerState' = indexerState
  /\ ( branch = "stall" /\ pc = "sleep5" )
       => /\ pc' = "update"
          /\ rows' = rows /\ queries' = << >>
          /\ indexerState' = indexerState
  /\ ( branch = "stall" /\ pc = "update" )
       => /\ rows' = rows /\ queries' = << >>
          /\ indexerState' = indexerState
          /\ indexerState = lastIndexedBlockNumber
          /\ pc' = "save" /\ proc' = "running"
  /\ ( branch = "stall" /\ pc = "save" )
       => /\ rows' = rows /\ queries' = << >>
          /\ indexerState' = indexerState
          /\ indexerState = lastIndexedBlockNumber
          /\ pc' = "read" /\ proc' = "running"

\* C9: when the tip query answers a height of at most checkpoint + 1, the
\* iteration queries no events, inserts no row, leaves the checkpoint value
\* unchanged, and the loop goes on to the next iteration: every step of a
\* stalled iteration leads on, through the sleep and the write-back, to the
\* read of the next iteration, with the process running.
C9_StallGoesOnToNextIteration == [][C9_Step]_vars

\* C10: an iteration is always followed by another one, also when its
\* checkpoint read fails: the flow never rests in the state where the
\* promise of eventsTrackingLoop rejected without a reschedule.
C10_EveryIterationReschedules == pc # "rejected"

C11_Step ==
  /\ ( pc \in {"update", "save"} /\ err' = "updateLastIndexerBlockNumber" )
       => /\ proc' = "exited"
          /\ pc' = pc
          /\ indexerState' = indexerState
  /\ ( proc = "exited" /\ err = "updateLastIndexerBlockNumber" )
       => UNCHANGED vars

\* C11: when the checkpoint write at the end of an iteration fails, the
\* process halts, the stored checkpoint keeps its previous value and no
\* further step of the loop is taken.
C11_WriteFailureHalts == [][C11_Step]_vars

\* the save of an advanced height failed: halted, checkpoint not advanced
C11_Witness ==
  /\ proc = "exited" /\ pc = "save"
  /\ err = "updateLastIndexerBlockNumber"
  /\ branch = "success"
  /\ toBlock > indexerState
  /\ indexerState = lastIndexedBlockNumber

\* C17: every getPastEvents call of an iteration uses the range
\* [checkpoint + 1, toBlock] with from < to and to at most the tip read in
\* that iteration, the same range for the three event kinds and in the
\* order TokenCreated, TokenBuy, TokenSell.
C17_RangeWithinTip ==
  /\ Len(queries) <= 3
  /\ \A k \in 1..Len(queries) :
       /\ queries[k].event = RangeQueries(0, 0)[k].event
       /\ queries[k].fromBlock = lastIndexedBlockNumber + 1
       /\ queries[k].fromBlock < queries[k].toBlock
       /\ queries[k].toBlock <= blockchainBlockNumber
       /\ queries[k].toBlock = queries[1].toBlock
  /\ ( pc \in {"fetchCreated", "fetchBuy", "fetchSell", "created", "buy",
               "sell"} )
       => /\ indexerState = lastIndexedBlockNumber
          /\ fromBlock = indexerState + 1
          /\ toBlock <= blockchainBlockNumber

\* the three calls were made with a range cut at the tip
C17_Witness ==
  /\ Len(queries) = 3
  /\ queries[3].toBlock = blockchainBlockNumber
  /\ queries[3].toBlock < queries[3].fromBlock + blocksIndexingRange - 1
  /\ pc = "created"

C20_Step ==
  /\ ( pc # "read" /\ pc' = "read" )
       => \/ pc \in {"bootGetUser", "bootAddUser"}
          \/ pc = "save" /\ indexerState' = toBlock
  /\ ( pc \in {"sleep5", "sleep30"} ) => pc' = "update"
  /\ ( pc = "update" /\ branch \in {"success", "stall", "failed"} )
       => \/ /\ pc' = "save" /\ proc' = "running"
             /\ indexerState' = indexerState
          \/ /\ proc' = "exited"
             /\ indexerState' = indexerState
  /\ ( pc = "save" /\ branch \in {"success", "stall", "failed"} )
       => \/ /\ pc' = "read" /\ proc' = "running"
             /\ indexerState' = toBlock
             /\ branch # "success" => indexerState' = indexerState
          \/ /\ proc' = "exited"
             /\ indexerState' = indexerState
  /\ pc' = "save" => pc \in {"update", "save"}
  /\ pc' = "update" => branch' \in {"success", "stall", "failed"}

\* C20: every iteration, successful, stalled or failed, ends with the write
\* of the checkpoint row (a stalled or failed one writes the unchanged
\* height back after its sleep), and in each of the three cases a failure
\* of that write halts the process.
C20_EveryIterationWrites == [][C20_Step]_vars

\* the write-back of a stalled iteration failed and halted the process
C20_Witness ==
  /\ proc = "exited" /\ pc = "update"
  /\ err = "updateLastIndexerBlockNumber"
  /\ branch = "stall"
  /\ toBlock = indexerState

\* some setting of the three is not there
MissingConfig ==
  \/ ~config.rpcUrl
  \/ ~config.contractAddress
  \/ config.initialBlockNumber = "absent"

\* an iteration of eventsTrackingLoop is between its first and last line
InIteration ==
  pc \in {"read", "tip", "fetchCreated", "fetchBuy", "fetchSell", "created",
          "buy", "sell", "sleep5", "sleep30", "update", "save"}

C12_Step ==
  /\ ( pc # "read" /\ pc' = "read" )
       => /\ pc \in {"bootGetUser", "bootAddUser", "save"}
          /\ inFlight' = 1
          /\ pc = "save" => /\ inFlight = 1
                            /\ indexerState' = toBlock
                            /\ branch \in {"success", "stall", "failed"}
  /\ ( pc # "tip" /\ pc' = "tip" ) => pc = "read"
  /\ inFlight' \in {0, 1}
  /\ InIteration' => inFlight' = 1

\* C12: at most one call of eventsTrackingLoop is in flight; the next
\* iteration is called only by the last line of the previous one, after its
\* persistence, its sleep and its checkpoint write, so the steps of two
\* iterations never interleave.
C12_OneIterationAtATime == [][C12_Step]_vars

\* a second iteration began after a failed one had slept and written back
C12_Witness ==
  /\ pc = "read" /\ inFlight = 1
  /\ branch = "failed"
  /\ indexerState = toBlock
  /\ advanced # << >>

\* C16: whenever one of the three settings (endpoint URL, contract address,
\* initial height) is absent, the process never gets past the constructor:
\* bootstrap does not run and no iteration starts.
C16_MissingConfigExits == MissingConfig => pc = "constructor"

\* C18: the ranges of the iterations that advanced the checkpoint follow one
\* another without gap or overlap: the first starts at the bootstrap height
\* + 1, each next one at the end of the one before + 1, and the last ends at
\* the checkpoint.
C18_AdvancingRangesContiguous ==
  /\ \A k \in 1..Len(advanced) :
       /\ advanced[k].from <= advanced[k].to
       /\ advanced[k].from =
            IF k = 1 THEN InitialBlockNumber + 1 ELSE advanced[k - 1].to + 1
  /\ ( indexerState # NoRow )
       => indexerState = IF advanced = << >> THEN InitialBlockNumber
                         ELSE advanced[Len(advanced)].to

\* three iterations advanced, with a failed one in between
C18_Witness ==
  /\ Len(advanced) >= 3
  /\ indexerState = advanced[Len(advanced)].to
  /\ faults > 0
  /\ pc = "read"

\* the process stopped on a trade whose token has no Token row
HaltedOnUnknownToken ==
  /\ proc = "exited"
  /\ pc \in {"buy", "sell"}
  /\ err = "none"

\* the loop stalls at the tip: no range is scanned any more
StallsAtTip ==
  /\ proc = "running"
  /\ indexerState \in {tipT - 1, tipT}
  /\ pc \in {"read", "tip", "sleep5", "update", "save"}
  /\ pc \in {"sleep5", "update", "save"} => branch = "stall"

\* while the checkpoint is T-1 no row of block T is stored
BlockAtTipNotIndexed ==
  ( indexerState = tipT - 1 )
    => \A k \in 1..Len(rows) : rows[k].blockNumber < tipT

\* C19 as stated: with the tip held at T and no call failing, the loop ends
\* up stalling for ever with the checkpoint at T or T-1, and block T has no
\* row while the checkpoint is T-1.
C19_EventuallyStallsAtTip ==
  /\ <>[]StallsAtTip
  /\ []BlockAtTipNotIndexed

\* C19, amended: with the tip held at T and no call failing, the loop either
\* halts on a trade whose token has no Token row, or ends up stalling for
\* ever with the checkpoint at T or T-1; block T has no row while the
\* checkpoint is T-1.
C19_StallsAtTipUnlessUnknownToken ==
  /\ <>[](StallsAtTip \/ HaltedOnUnknownToken)
  /\ []BlockAtTipNotIndexed

\* the checkpoint reached T-1 by a scanned range and the next iteration
\* stalled, leaving the events of block T unscanned
C19_Witness ==
  /\ tipT # 0
  /\ indexerState = tipT - 1
  /\ advanced # << >>
  /\ pc = "update" /\ branch = "stall"
  /\ \E k \in 1..Len(ChainEvents) : ChainEvents[k].blockNumber = tipT
  /\ \A k \in 1..Len(rows) : rows[k].blockNumber < tipT

\* some Trade row of some token falls in yesterday's window
TradeInWindow ==
  \E k \in 1..Len(trades) :
    trades[k].createdAt >= dateStart(now) /\ trades[k].createdAt <= dateEnd(now)

\* C13: when no Trade row lies in the window, a successful computation
\* returns null (no winner), whatever tokens were loaded.
C13_NoTradeNoWinner ==
  ( logged /\ ~TradeInWindow ) => winnerTokenId = NoWinner

\* the total of a token over the window
WindowTotal(id) == SumAmountOut(tokenSwaps(id, trades, now))

\* the loaded token whose total is strictly above every other loaded token's
StrictlyLargest(id) ==
  /\ \E k \in 1..Len(loaded) : loaded[k] = id
  /\ \A k \in 1..Len(loaded) :
       loaded[k] # id => WindowTotal(id) > WindowTotal(loaded[k])

\* C14: when one loaded token's summed amountOut over the window is strictly
\* larger than every other loaded token's, a successful computation returns
\* that token's id, in whatever order the tokens were loaded.
C14_StrictlyLargestWins ==
  logged => \A id \in AggTokenIds : StrictlyLargest(id) => winnerTokenId = id

\* the winner was loaded last, behind two tokens whose totals tie; two equal
\* Trade rows count twice, and a Trade row was stored after the window
C14_Witness ==
  /\ logged
  /\ Len(loaded) = 3
  /\ StrictlyLargest(loaded[3])
  /\ winnerTokenId = loaded[3]
  /\ WindowTotal(loaded[1]) = WindowTotal(loaded[2])
  /\ \E k \in 1..Len(trades) : trades[k].createdAt > dateEnd(now)
  /\ \E k \in 1..(Len(trades) - 1) :
       trades[k] = trades[k + 1] /\ trades[k].token = loaded[3]

\* an attempt of the daily job is waiting for a call
AttemptRuns == cronPc \in {"getTokens", "find"}

C15_Step ==
  /\ cronI' <= 3
  /\ AttemptRuns' => cronI' < 3
  /\ ( AttemptRuns /\ logged' ) => cronPc' = "idle" /\ cronI' = cronI
  /\ ( AttemptRuns /\ cronI' = 3 ) => cronPc' = "idle"
  /\ ( cronLocals' # cronLocals )
       => /\ proc' = "running" /\ proc = "running"
          /\ UNCHANGED << indexerVars, cronStore >>

\* C15: one run of handleCron makes at most 3 attempts, ends at the first
\* attempt that succeeds, returns after the third failure, and no attempt
\* changes the state of the process or of the indexing flow.
C15_BoundedRetries == [][C15_Step]_vars

\* a run returned after three failed attempts, the last one failing at a
\* find(Trade) after earlier reads, the process still running
C15_Witness ==
  /\ cronPc = "idle"
  /\ cronI = 3
  /\ ~logged
  /\ loaded # << >>
  /\ proc = "running"

====
